---- MODULE Spec2Model ----
(***************************************************************************)
(* A model of the jmespath crate facade (src/lib.rs): error coordinates    *)
(* and diagnostics, compiled Expressions and the search entry points.      *)
(*                                                                         *)
(* Text is modelled as a sequence of one-character strings, so a Rust      *)
(* String or &str "foo" is <<"f","o","o">> and chars() is the sequence     *)
(* itself.                                                                 *)
(***************************************************************************)
EXTENDS Integers, Sequences, FiniteSets, TLC

VARIABLES
    expr,       \* the expression text handed to the coordinate / error functions
    offset,     \* the offset argument of the last from_offset / Error::new call
    step,       \* the operation on `expr` performed last ("input" before any)
    coords,     \* the Coordinates value built last (None before)
    carat,      \* the String returned by expression_with_carat (None before)
    error,      \* the Error built by Error::new (None before)
    text,       \* the String produced by formatting `error` with Display (None before)
    pool,       \* the live Expression values
    last,       \* what the last call on the Expression API did and returned
    memo,       \* an earlier Expression::search call, kept for comparison
    halted      \* TRUE once a call panicked

coordVars == <<expr, offset, step, coords, carat, error, text>>
exprVars == <<pool, last, memo, halted>>
vars == <<expr, offset, step, coords, carat, error, text, pool, last, memo, halted>>

\* Bind(v, F) is LET r == v IN F(r): the value v is computed once and named.
Bind(v, F(_)) == F(v)

\* Option::None, and the "no value yet" marker of the observation variables.
None == [none |-> TRUE]

(***************************************************************************)
(* Bounds of the model.                                                    *)
(***************************************************************************)
MaxLen == 4         \* longest enumerated expression text
MaxPast == 2        \* how far past the end of the text an offset may point
MaxLine == 3        \* largest line of a directly constructed Coordinates
MaxColumn == 2      \* largest column of a directly constructed Coordinates
LongLen == 12       \* length of the one-line text that gives two-digit columns

Alphabet == {"a", ".", "\n"}

Texts(n) == UNION {[1..k -> Alphabet] : k \in 0..n}

\* The texts of the crate's own coordinate tests (lib.rs 423, 433, 443).
TestNewLines == <<"f","o","o","\n",".",".","b","a","r">>
TestNonLast == <<"f","o","o","\n",".",".","b","a","r","\n","b","a","z">>
TestNoNewLines == <<"f","o","o",".",".","b","a","r">>
LongLine == [i \in 1..LongLen |-> "a"]

CoordTexts == Texts(MaxLen) \cup {TestNewLines, TestNonLast, TestNoNewLines, LongLine}

(***************************************************************************)
(* Coordinates                                                             *)
(***************************************************************************)

\* expr.chars().take(offset)
take(chars, n) == SubSeq(chars, 1, IF n < Len(chars) THEN n ELSE Len(chars))

\* The body of the for loop of from_offset, from character i on.
RECURSIVE from_offset_loop(_, _, _, _)
from_offset_loop(chars, i, current_line, current_col) ==
    IF i > Len(chars)
    THEN [line |-> current_line, column |-> current_col]
    ELSE IF chars[i] = "\n"
         THEN from_offset_loop(chars, i + 1, current_line + 1, 0)
         ELSE from_offset_loop(chars, i + 1, current_line, current_col + 1)

\* A from_offset whose column is not reset at a new line.
RECURSIVE from_offset_loop_NoReset(_, _, _, _)
from_offset_loop_NoReset(chars, i, current_line, current_col) ==
    IF i > Len(chars)
    THEN [line |-> current_line, column |-> current_col]
    ELSE IF chars[i] = "\n"
         THEN from_offset_loop_NoReset(chars, i + 1, current_line + 1, current_col)
         ELSE from_offset_loop_NoReset(chars, i + 1, current_line, current_col + 1)

from_offset_NoReset(e, k) ==
    Bind(from_offset_loop_NoReset(take(e, k), 1, 0, 0),
         LAMBDA r : [offset |-> k, line |-> r.line, column |-> r.column])

\* A from_offset that clamps the stored offset to the length of the text.
from_offset_Clamped(e, k) ==
    Bind(from_offset_loop(take(e, k), 1, 0, 0),
         LAMBDA r : [offset |-> IF k < Len(e) THEN k ELSE Len(e),
                     line |-> r.line, column |-> r.column])

\* Coordinates::from_offset
from_offset(e, k) ==
    Bind(from_offset_loop(take(e, k), 1, 0, 0),
         LAMBDA r : [offset |-> k, line |-> r.line, column |-> r.column])

Spaces(n) == [i \in 1..n |-> " "]

\* Coordinates::inject_carat: the buffer after the two push_str calls.
inject_carat(self, buff) == buff \o Spaces(self.column) \o <<"^", "\n">>

\* The for loop of expression_with_carat, from character i on; the result is
\* the buffer and the matched flag.
RECURSIVE carat_loop(_, _, _, _, _, _)
carat_loop(self, chars, i, buff, matched, current_line) ==
    IF i > Len(chars)
    THEN [buff |-> buff, matched |-> matched]
    ELSE LET pushed == Append(buff, chars[i])
         IN  IF chars[i] = "\n"
             THEN IF current_line + 1 = self.line + 1
                  THEN carat_loop(self, chars, i + 1, inject_carat(self, pushed),
                                  TRUE, current_line + 1)
                  ELSE carat_loop(self, chars, i + 1, pushed, matched, current_line + 1)
             ELSE carat_loop(self, chars, i + 1, pushed, matched, current_line)

\* An expression_with_carat that compares the line before counting the new line.
RECURSIVE carat_loop_OffByOne(_, _, _, _, _, _)
carat_loop_OffByOne(self, chars, i, buff, matched, current_line) ==
    IF i > Len(chars)
    THEN [buff |-> buff, matched |-> matched]
    ELSE LET pushed == Append(buff, chars[i])
         IN  IF chars[i] = "\n"
             THEN IF current_line = self.line + 1
                  THEN carat_loop_OffByOne(self, chars, i + 1, inject_carat(self, pushed),
                                           TRUE, current_line + 1)
                  ELSE carat_loop_OffByOne(self, chars, i + 1, pushed, matched,
                                           current_line + 1)
             ELSE carat_loop_OffByOne(self, chars, i + 1, pushed, matched, current_line)

expression_with_carat_OffByOne(self, e) ==
    Bind(carat_loop_OffByOne(self, e, 1, <<>>, FALSE, 0),
         LAMBDA r : IF ~r.matched THEN inject_carat(self, Append(r.buff, "\n")) ELSE r.buff)

\* Coordinates::expression_with_carat
expression_with_carat(self, e) ==
    Bind(carat_loop(self, e, 1, <<>>, FALSE, 0),
         LAMBDA r : IF ~r.matched THEN inject_carat(self, Append(r.buff, "\n")) ELSE r.buff)

Digits == <<"0", "1", "2", "3", "4", "5", "6", "7", "8", "9">>

\* The "{}" rendering of a usize.
RECURSIVE usize_fmt(_)
usize_fmt(n) ==
    IF n < 10 THEN <<Digits[n + 1]>> ELSE usize_fmt(n \div 10) \o <<Digits[(n % 10) + 1]>>

\* impl Display for Coordinates: "line {}, column {}"
Coordinates_fmt(self) ==
    <<"l","i","n","e"," ">> \o usize_fmt(self.line)
        \o <<",", " ", "c","o","l","u","m","n"," ">> \o usize_fmt(self.column)

(***************************************************************************)
(* Errors                                                                  *)
(***************************************************************************)

\* ErrorReason::Parse(String) and ErrorReason::Runtime(RuntimeError)
Parse(msg) == [kind |-> "Parse", msg |-> msg]
Runtime(e) == [kind |-> "Runtime", err |-> e]

\* The variants of RuntimeError the model builds.
InvalidSlice == [e |-> "InvalidSlice"]
InvalidKey(actual) == [e |-> "InvalidKey", actual |-> actual]
TooManyArguments(expected, actual) ==
    [e |-> "TooManyArguments", expected |-> expected, actual |-> actual]
NotEnoughArguments(expected, actual) ==
    [e |-> "NotEnoughArguments", expected |-> expected, actual |-> actual]
UnknownFunction(name) == [e |-> "UnknownFunction", name |-> name]
InvalidReturnType(expected, actual, actual_value, position, invocation) ==
    [e |-> "InvalidReturnType", expected |-> expected, actual |-> actual,
     actual_value |-> actual_value, position |-> position, invocation |-> invocation]

\* The "{:?}" rendering of a String: quoted, with the escapes of the
\* characters the model uses.
RECURSIVE str_escape(_)
str_escape(s) ==
    IF s = <<>> THEN <<>>
    ELSE (CASE Head(s) = "\n" -> <<"\\", "n">>
            [] Head(s) = "\"" -> <<"\\", "\"">>
            [] Head(s) = "\\" -> <<"\\", "\\">>
            [] OTHER -> <<Head(s)>>) \o str_escape(Tail(s))

str_debug(s) == <<"\"">> \o str_escape(s) \o <<"\"">>

\* impl Display for RuntimeError, for the variants whose text needs no
\* Variable::to_string.
RuntimeError_fmt(self) ==
    CASE self.e = "UnknownFunction" ->
            <<"C","a","l","l"," ","t","o"," ","u","n","d","e","f","i","n","e","d"," ",
              "f","u","n","c","t","i","o","n"," ">> \o self.name
      [] self.e = "TooManyArguments" ->
            <<"T","o","o"," ","m","a","n","y"," ","a","r","g","u","m","e","n","t","s",","," ",
              "e","x","p","e","c","t","e","d"," ">> \o usize_fmt(self.expected)
                \o <<","," ","f","o","u","n","d"," ">> \o usize_fmt(self.actual)
      [] self.e = "NotEnoughArguments" ->
            <<"N","o","t"," ","e","n","o","u","g","h"," ","a","r","g","u","m","e","n","t","s",
              ","," ","e","x","p","e","c","t","e","d"," ">> \o usize_fmt(self.expected)
                \o <<","," ","f","o","u","n","d"," ">> \o usize_fmt(self.actual)
      [] self.e = "InvalidSlice" ->
            <<"I","n","v","a","l","i","d"," ","s","l","i","c","e">>
      [] self.e = "InvalidKey" ->
            <<"I","n","v","a","l","i","d"," ","k","e","y","."," ","E","x","p","e","c","t","e","d",
              " ","s","t","r","i","n","g",","," ","f","o","u","n","d"," ">>
                \o str_debug(self.actual)

\* impl Display for ErrorReason
ErrorReason_fmt(self) ==
    IF self.kind = "Parse"
    THEN <<"P","a","r","s","e"," ","e","r","r","o","r",":"," ">> \o self.msg
    ELSE <<"R","u","n","t","i","m","e"," ","e","r","r","o","r",":"," ">>
            \o RuntimeError_fmt(self.err)

\* Error::new
Error_new(e, k, error_reason) ==
    [expression |-> e, coordinates |-> from_offset(e, k), error_reason |-> error_reason]

\* A Display for Error that puts the carat under the offset, not the column.
Error_fmt_CaratAtOffset(self) ==
    ErrorReason_fmt(self.error_reason) \o <<" ", "(">> \o Coordinates_fmt(self.coordinates)
        \o <<")", "\n">>
        \o expression_with_carat([self.coordinates EXCEPT !.column = self.coordinates.offset],
                                 self.expression)

\* impl Display for Error: "{} ({})\n{}"
Error_fmt(self) ==
    ErrorReason_fmt(self.error_reason) \o <<" ", "(">> \o Coordinates_fmt(self.coordinates)
        \o <<")", "\n">> \o expression_with_carat(self.coordinates, self.expression)

\* The error reasons handed to Error::new.
Unexpected == <<"U","n","e","x","p","e","c","t","e","d"," ","t","o","k","e","n">>
Reasons == {Parse(Unexpected), Runtime(InvalidSlice), Runtime(UnknownFunction(<<"f">>)),
            Runtime(InvalidKey(<<"1","\n">>)), Runtime(TooManyArguments(1, 12))}

(***************************************************************************)
(* The coordinate and diagnostic operations applied to one text.           *)
(***************************************************************************)

ExprIdle == pool = {} /\ last = [op |-> "none"] /\ memo = [op |-> "none"] /\ halted = FALSE

InitCoord ==
    /\ expr \in CoordTexts
    /\ offset = 0
    /\ step = "input"
    /\ coords = None
    /\ carat = None
    /\ error = None
    /\ text = None
    /\ ExprIdle

\* let coords = Coordinates::from_offset(expr, k)
FromOffset ==
    /\ step = "input"
    /\ \E k \in 0..(Len(expr) + MaxPast) :
        /\ offset' = k
        /\ coords' = from_offset(expr, k)
    /\ step' = "from_offset"
    /\ UNCHANGED <<expr, carat, error, text, exprVars>>

\* let coords = Coordinates { offset, line, column }: the fields are public.
MakeCoordinates ==
    /\ step = "input"
    /\ \E l \in 0..MaxLine, c \in 0..MaxColumn, o \in 0..1 :
        coords' = [offset |-> o, line |-> l, column |-> c]
    /\ step' = "literal"
    /\ UNCHANGED <<expr, offset, carat, error, text, exprVars>>

\* coords.expression_with_carat(expr)
ExpressionWithCarat ==
    /\ step \in {"from_offset", "literal"}
    /\ carat' = expression_with_carat(coords, expr)
    /\ step' = "carat"
    /\ UNCHANGED <<expr, offset, coords, error, text, exprVars>>

\* let error = Error::new(expr, k, reason)
ErrorNew ==
    /\ step = "input"
    /\ \E k \in 0..(Len(expr) + MaxPast), r \in Reasons :
        /\ offset' = k
        /\ error' = Error_new(expr, k, r)
    /\ step' = "error"
    /\ UNCHANGED <<expr, coords, carat, text, exprVars>>

\* format!("{}", error)
ErrorDisplay ==
    /\ step = "error"
    /\ text' = Error_fmt(error)
    /\ step' = "display"
    /\ UNCHANGED <<expr, offset, coords, carat, error, exprVars>>

NextCoord ==
    \/ FromOffset
    \/ MakeCoordinates
    \/ ExpressionWithCarat
    \/ ErrorNew
    \/ ErrorDisplay

SpecCoord == InitCoord /\ [][NextCoord]_vars

(***************************************************************************)
(* Lexer and parser (modules lexer and parser of the crate). The model     *)
(* covers the sub-language of identifiers, "@", ".", "|", function calls   *)
(* and "&" expression references; every text the model compiles lies in    *)
(* it. Offsets are 0-based character positions.                            *)
(***************************************************************************)

Whitespace == {" ", "\t", "\r", "\n"}
Letters == {"a","b","c","d","e","f","g","h","i","j","k","l","m","n","o","p","q","r","s",
            "t","u","v","w","x","y","z","_"}
Punctuation == [type : {"At"}, ch : {"@"}] \cup [type : {"Dot"}, ch : {"."}]
                \cup [type : {"Pipe"}, ch : {"|"}] \cup [type : {"LParen"}, ch : {"("}]
                \cup [type : {"RParen"}, ch : {")"}] \cup [type : {"Comma"}, ch : {","}]
                \cup [type : {"Ampersand"}, ch : {"&"}]

\* The position after the identifier that starts at i.
RECURSIVE identifier_end(_, _)
identifier_end(chars, i) ==
    IF i <= Len(chars) /\ chars[i] \in Letters \cup {"0","1","2","3","4","5","6","7","8","9"}
    THEN identifier_end(chars, i + 1)
    ELSE i

\* The tokens of chars from position i on, ending in Eof, or in an Unknown
\* token at the first character that starts no token.
RECURSIVE tokenize(_, _)
tokenize(chars, i) ==
    IF i > Len(chars) THEN <<[type |-> "Eof", offset |-> Len(chars)]>>
    ELSE IF chars[i] \in Whitespace THEN tokenize(chars, i + 1)
    ELSE IF chars[i] \in Letters
         THEN Bind(identifier_end(chars, i),
                   LAMBDA j : <<[type |-> "Identifier", value |-> SubSeq(chars, i, j - 1),
                                 offset |-> i - 1]>> \o tokenize(chars, j))
    ELSE IF \E p \in Punctuation : p.ch = chars[i]
         THEN <<[type |-> (CHOOSE p \in Punctuation : p.ch = chars[i]).type,
                 offset |-> i - 1]>> \o tokenize(chars, i + 1)
    ELSE <<[type |-> "Unknown", offset |-> i - 1]>>

\* The left binding power of a token.
lbp(token) ==
    CASE token.type = "Pipe" -> 1
      [] token.type = "Dot" -> 40
      [] token.type = "LParen" -> 60
      [] OTHER -> 0

ParseOk(ast, pos) == [ok |-> TRUE, ast |-> ast, pos |-> pos]
ParseErr(token) == [ok |-> FALSE, offset |-> token.offset, msg |-> Unexpected]

RECURSIVE parse_expr(_, _, _)
RECURSIVE parse_led_loop(_, _, _, _)
RECURSIVE parse_args(_, _, _)

\* The null denotation of the token at pos.
nud(tokens, pos) ==
    CASE tokens[pos].type = "Identifier" ->
            ParseOk([node |-> "Field", name |-> tokens[pos].value,
                     offset |-> tokens[pos].offset], pos + 1)
      [] tokens[pos].type = "At" ->
            ParseOk([node |-> "Identity", offset |-> tokens[pos].offset], pos + 1)
      [] OTHER -> ParseErr(tokens[pos])

\* The node of an infix token with its two sides, or the failure of the
\* right side.
infix_node(node, token, left, rhs) ==
    IF rhs.ok
    THEN ParseOk([node |-> node, offset |-> token.offset, lhs |-> left, rhs |-> rhs.ast],
                 rhs.pos)
    ELSE rhs

\* The node of a call with its arguments, or the failure of an argument.
call_node(token, left, args) ==
    IF args.ok
    THEN ParseOk([node |-> "Function", offset |-> token.offset, name |-> left.name,
                  args |-> args.ast], args.pos)
    ELSE args

\* The left denotation of the token at pos, applied to the node `left`.
led(tokens, pos, left) ==
    CASE tokens[pos].type = "Dot" ->
            infix_node("Subexpr", tokens[pos], left,
                  parse_expr(tokens, pos + 1, lbp(tokens[pos])))
      [] tokens[pos].type = "Pipe" ->
            infix_node("Pipe", tokens[pos], left,
                  parse_expr(tokens, pos + 1, lbp(tokens[pos])))
      [] tokens[pos].type = "LParen" ->
            IF left.node # "Field" THEN ParseErr(tokens[pos])
            ELSE call_node(tokens[pos], left, parse_args(tokens, pos + 1, <<>>))
      [] OTHER -> ParseErr(tokens[pos])

\* expression(rbp): nud, then led while the next token binds tighter.
parse_expr(tokens, pos, rbp) ==
    Bind(nud(tokens, pos),
         LAMBDA left : IF left.ok THEN parse_led_loop(tokens, left.ast, left.pos, rbp)
                       ELSE left)

parse_led_loop(tokens, left, pos, rbp) ==
    IF lbp(tokens[pos]) > rbp
    THEN Bind(led(tokens, pos, left),
              LAMBDA r : IF r.ok THEN parse_led_loop(tokens, r.ast, r.pos, rbp) ELSE r)
    ELSE ParseOk(left, pos)

\* One parsed argument: an argument that began with "&" is an expression
\* reference.
argument(amp, arg) ==
    IF amp.type = "Ampersand" /\ arg.ok
    THEN [arg EXCEPT !.ast = [node |-> "Expref", offset |-> amp.offset, ast |-> arg.ast]]
    ELSE arg

\* The comma-separated arguments of a call, up to and including ")".
parse_args(tokens, pos, acc) ==
    IF tokens[pos].type = "RParen" /\ acc = <<>> THEN ParseOk(acc, pos + 1)
    ELSE Bind(argument(tokens[pos],
                       parse_expr(tokens,
                                  IF tokens[pos].type = "Ampersand" THEN pos + 1 ELSE pos, 0)),
              LAMBDA arg :
                IF ~arg.ok THEN arg
                ELSE IF tokens[arg.pos].type = "Comma"
                     THEN parse_args(tokens, arg.pos + 1, Append(acc, arg.ast))
                ELSE IF tokens[arg.pos].type = "RParen"
                     THEN ParseOk(Append(acc, arg.ast), arg.pos + 1)
                ELSE ParseErr(tokens[arg.pos]))

\* The failure of parse: an Error built by Error::new at the offending offset.
parse_error(expression, at, msg) ==
    [ok |-> FALSE, err |-> Error_new(expression, at, Parse(msg))]

\* parse(expr): expression(0), then Eof.
parse_tokens(expression, tokens) ==
    Bind(parse_expr(tokens, 1, 0),
         LAMBDA r :
            IF ~r.ok THEN parse_error(expression, r.offset, r.msg)
            ELSE IF tokens[r.pos].type # "Eof"
                 THEN parse_error(expression, tokens[r.pos].offset, Unexpected)
            ELSE [ok |-> TRUE, value |-> r.ast])

\* parse(expr)
parse(expression) == parse_tokens(expression, tokenize(expression, 1))

(***************************************************************************)
(* Variables (module variable): the values the interpreter works on, and   *)
(* the Serializer that ingests the caller's data.                          *)
(***************************************************************************)

VNull == [t |-> "null"]
VBool(b) == [t |-> "boolean", b |-> b]
VNumber(n) == [t |-> "number", n |-> n]
VString(s) == [t |-> "string", s |-> s]
VArray(items) == [t |-> "array", items |-> items]
VObject(fields) == [t |-> "object", fields |-> fields]
VExpref(ast) == [t |-> "expref", ast |-> ast]

\* A map of the caller whose keys are arbitrary values, not yet ingested.
HostMap(entries) == [t |-> "hostmap", entries |-> entries]

\* The text of a map key that is no string.
key_text(key) ==
    CASE key.t = "number" -> usize_fmt(key.n)
      [] key.t = "boolean" -> IF key.b THEN <<"t","r","u","e">> ELSE <<"f","a","l","s","e">>
      [] OTHER -> <<"n","u","l","l">>

\* data.serialize(&mut ser): a Variable is ingested as itself; a map of the
\* caller becomes an object when every key is a string, and the ingestion
\* fails with InvalidKey otherwise.
serialize(data) ==
    IF data.t # "hostmap" THEN [ok |-> TRUE, value |-> data]
    ELSE LET bad == {i \in 1..Len(data.entries) : data.entries[i].key.t # "string"}
         IN  IF bad # {}
             THEN [ok |-> FALSE,
                   err |-> InvalidKey(key_text(
                            data.entries[CHOOSE i \in bad : \A j \in bad : i <= j].key))]
             ELSE [ok |-> TRUE,
                   value |-> VObject([k \in {data.entries[i].key.s : i \in 1..Len(data.entries)}
                        |-> data.entries[CHOOSE i \in 1..Len(data.entries) :
                                            data.entries[i].key.s = k].value])]

(***************************************************************************)
(* Interpreter (module interpreter) and function registry.                 *)
(***************************************************************************)

n_length == <<"l","e","n","g","t","h">>
n_max_by == <<"m","a","x","_","b","y">>
n_f == <<"f">>
n_a == <<"a">>
n_foo == <<"f","o","o">>
n_bar == <<"b","a","r">>
t_number == <<"n","u","m","b","e","r">>
t_array == <<"a","r","r","a","y">>
t_expref == <<"e","x","p","r","e","f">>
t_null == <<"n","u","l","l">>
t_boolean == <<"b","o","o","l","e","a","n">>
t_string == <<"s","t","r","i","n","g">>
t_object == <<"o","b","j","e","c","t">>
t_sized == <<"a","r","r","a","y","|","o","b","j","e","c","t","|","s","t","r","i","n","g">>

\* The name of a value's type, as the diagnostics print it.
type_name(v) ==
    CASE v.t = "null" -> t_null
      [] v.t = "boolean" -> t_boolean
      [] v.t = "number" -> t_number
      [] v.t = "string" -> t_string
      [] v.t = "array" -> t_array
      [] v.t = "object" -> t_object
      [] OTHER -> t_expref

\* TreeInterpreter::new(): the interpreter with the built-in functions.
TreeInterpreter_new == [functions |-> {n_length, n_max_by}]

\* An interpreter of the caller that also registers a function f, which
\* returns its argument.
CustomInterpreter == [functions |-> {n_length, n_max_by, n_f}]

\* Context::new(interpreter, expression)
Context_new(interpreter, expression) ==
    [interpreter |-> interpreter, expression |-> expression, offset |-> 0, invocation |-> 0]

\* Context::create_coordinates
create_coordinates(c) == from_offset(c.expression, c.offset)

\* Error::from_ctx
Error_from_ctx(c, error_reason) ==
    [expression |-> c.expression, coordinates |-> create_coordinates(c),
     error_reason |-> error_reason]

InterpOk(value, c) == [ok |-> TRUE, value |-> value, ctx |-> c]
InterpErr(c, e) == [ok |-> FALSE, err |-> Error_from_ctx(c, Runtime(e)), ctx |-> c]

RECURSIVE interpret(_, _, _, _)
RECURSIVE interpret_args(_, _, _, _, _, _)
RECURSIVE max_by_loop(_, _, _, _, _, _)

\* The arity every function of the registries declares.
Arity(name) == IF name = n_max_by THEN 2 ELSE 1

\* A function call: the lookup in the registry the Context refers to, the
\* signature check, the body.
dispatch(name, args, c, self) ==
    IF name \notin c.interpreter.functions THEN InterpErr(c, UnknownFunction(name))
    ELSE IF Len(args) < Arity(name)
         THEN InterpErr(c, NotEnoughArguments(Arity(name), Len(args)))
    ELSE IF Len(args) > Arity(name)
         THEN InterpErr(c, TooManyArguments(Arity(name), Len(args)))
    ELSE CASE name = n_length ->
                LET v == args[1]
                IN  CASE v.t = "string" -> InterpOk(VNumber(Len(v.s)), c)
                      [] v.t = "array" -> InterpOk(VNumber(Len(v.items)), c)
                      [] v.t = "object" ->
                            InterpOk(VNumber(Cardinality(DOMAIN v.fields)), c)
                      [] OTHER ->
                            InterpErr(c, [e |-> "InvalidType", expected |-> t_sized,
                                          actual |-> type_name(v), actual_value |-> v,
                                          position |-> 0])
           [] name = n_max_by ->
                IF args[1].t # "array"
                THEN InterpErr(c, [e |-> "InvalidType", expected |-> t_array,
                                   actual |-> type_name(args[1]), actual_value |-> args[1],
                                   position |-> 0])
                ELSE IF args[2].t # "expref"
                THEN InterpErr(c, [e |-> "InvalidType", expected |-> t_expref,
                                   actual |-> type_name(args[2]), actual_value |-> args[2],
                                   position |-> 1])
                ELSE max_by_loop(args[1].items, 1, args[2].ast, c, self, [has |-> FALSE])
           [] OTHER -> InterpOk(args[1], c)

\* max_by: every invocation of the expression reference increments the
\* context's invocation counter and must return a number.
max_by_loop(items, i, ast, c, self, best) ==
    IF i > Len(items) THEN InterpOk(IF best.has THEN best.item ELSE VNull, c)
    ELSE Bind(interpret(items[i], ast, [c EXCEPT !.invocation = @ + 1], self),
              LAMBDA r :
                IF ~r.ok THEN r
                ELSE IF r.value.t # "number"
                     THEN InterpErr(r.ctx, InvalidReturnType(t_number, type_name(r.value),
                                                             r.value, 1, r.ctx.invocation))
                ELSE max_by_loop(items, i + 1, ast, r.ctx, self,
                                 IF ~best.has \/ best.key < r.value.n
                                 THEN [has |-> TRUE, item |-> items[i], key |-> r.value.n]
                                 ELSE best))

\* The arguments of a call, evaluated left to right.
interpret_args(data, args, i, acc, c, self) ==
    IF i > Len(args) THEN InterpOk(acc, c)
    ELSE Bind(interpret(data, args[i], c, self),
              LAMBDA r :
                IF r.ok THEN interpret_args(data, args, i + 1, Append(acc, r.value), r.ctx, self)
                ELSE r)

\* TreeInterpreter::interpret(data, ast, ctx)
interpret(data, ast, c, self) ==
    CASE ast.node = "Identity" -> InterpOk(data, c)
      [] ast.node = "Field" ->
            IF data.t = "object" /\ ast.name \in DOMAIN data.fields
            THEN InterpOk(data.fields[ast.name], c)
            ELSE InterpOk(VNull, c)
      [] ast.node \in {"Subexpr", "Pipe"} ->
            Bind(interpret(data, ast.lhs, c, self),
                 LAMBDA l : IF l.ok THEN interpret(l.value, ast.rhs, l.ctx, self) ELSE l)
      [] ast.node = "Expref" -> InterpOk(VExpref(ast.ast), c)
      [] ast.node = "Function" ->
            Bind(interpret_args(data, ast.args, 1, <<>>, c, self),
                 LAMBDA args :
                    IF args.ok
                    THEN dispatch(ast.name, args.value,
                                  [args.ctx EXCEPT !.offset = ast.offset], self)
                    ELSE args)

(***************************************************************************)
(* Expression and the search entry points.                                 *)
(***************************************************************************)

\* The text without its trailing whitespace.
RECURSIVE trim_end(_)
trim_end(chars) ==
    IF chars # <<>> /\ chars[Len(chars)] \in Whitespace
    THEN trim_end(SubSeq(chars, 1, Len(chars) - 1))
    ELSE chars

\* A with_interpreter that keeps the text trimmed.
Expression_with_interpreter_Trimmed(expression, interpreter) ==
    Bind(parse(expression),
         LAMBDA ast :
            IF ast.ok
            THEN [ok |-> TRUE,
                  value |-> [original |-> trim_end(expression), ast |-> ast.value,
                             interpreter |-> interpreter]]
            ELSE ast)

\* Expression::with_interpreter: try!(parse(expression)) returns the parse
\* error to the caller.
Expression_with_interpreter(expression, interpreter) ==
    Bind(parse(expression),
         LAMBDA ast :
            IF ast.ok
            THEN [ok |-> TRUE,
                  value |-> [original |-> expression, ast |-> ast.value,
                             interpreter |-> interpreter]]
            ELSE ast)

\* Expression::new
Expression_new(expression) == Expression_with_interpreter(expression, None)

\* A search that goes on with the Context of the search before it.
search_ctx_Kept(self, i) ==
    IF last.op = "search" /\ ~last.out.panicked
    THEN [last.out.ctx EXCEPT !.interpreter = i, !.expression = self.original]
    ELSE Context_new(i, self.original)

\* let mut ctx = Context::new(i, &self.original)
search_ctx(self, i) == Context_new(i, self.original)

\* The Result the interpreter returned, without the model's record of the
\* Context.
SearchResult(r) ==
    IF r.ok THEN [ok |-> TRUE, value |-> r.value] ELSE [ok |-> FALSE, err |-> r.err]

\* What a search that got past ingestion did: the Expression after the call,
\* the ingested data, the interpreter used and whether the call created it,
\* the Context as created and as left, the interpreter's outcome r and the
\* returned result.
search_record(self, data, i, c, r, result) ==
    [panicked |-> FALSE, self |-> self, data |-> data,
     created |-> self.interpreter = None, by |-> i, ctx0 |-> c, ctx |-> r.ctx,
     raw |-> SearchResult(r), result |-> result]

\* A search that answers null where the interpreter failed.
search_interpret_Swallow(self, data, i) ==
    Bind(search_ctx(self, i),
         LAMBDA c :
            Bind(interpret(data, self.ast, c, i),
                 LAMBDA r : search_record(self, data, i, c, r,
                                          IF r.ok THEN SearchResult(r)
                                          ELSE [ok |-> TRUE, value |-> VNull])))

Expression_search_Swallow(self, data) ==
    Bind(serialize(data),
         LAMBDA ser :
            IF ~ser.ok
            THEN [panicked |-> TRUE, self |-> self]
            ELSE search_interpret_Swallow(self, ser.value,
                                          IF self.interpreter = None
                                          THEN TreeInterpreter_new
                                          ELSE self.interpreter))

\* The two arms of Expression::search after ingestion: a fresh Context for
\* this call, then i.interpret(&data, &self.ast, &mut ctx), returned as is.
search_interpret(self, data, i) ==
    Bind(search_ctx(self, i),
         LAMBDA c :
            Bind(interpret(data, self.ast, c, i),
                 LAMBDA r : search_record(self, data, i, c, r, SearchResult(r))))

\* Expression::search. data.serialize(&mut ser).ok().unwrap() panics where
\* the data cannot be ingested; the interpreter is the one supplied at
\* construction, or a TreeInterpreter created for this call.
Expression_search(self, data) ==
    Bind(serialize(data),
         LAMBDA ser :
            IF ~ser.ok
            THEN [panicked |-> TRUE, self |-> self]
            ELSE search_interpret(self, ser.value,
                                  IF self.interpreter = None
                                  THEN TreeInterpreter_new
                                  ELSE self.interpreter))

\* What search(expression, data) did with the compiled Expression's call.
search_call(call) == [compiled |-> TRUE, panicked |-> call.panicked, call |-> call]

\* A search function that ingests the data before it compiles the text.
search_IngestFirst(expression, data) ==
    IF ~serialize(data).ok
    THEN [compiled |-> FALSE, panicked |-> TRUE]
    ELSE Bind(Expression_new(expression),
              LAMBDA compiled :
                IF compiled.ok
                THEN search_call(Expression_search(compiled.value, data))
                ELSE [compiled |-> FALSE, panicked |-> FALSE, result |-> compiled])

\* search(expression, data): Expression::new(expression).and_then(|expr|
\* expr.search(data)).
search(expression, data) ==
    Bind(Expression_new(expression),
         LAMBDA compiled :
            IF compiled.ok
            THEN search_call(Expression_search(compiled.value, data))
            ELSE [compiled |-> FALSE, panicked |-> FALSE, result |-> compiled])

\* Expression::as_str
as_str(self) == self.original

\* Expression::as_ast
as_ast(self) == self.ast

\* impl Display for Expression
Expression_Display_fmt(self) == as_str(self)

\* impl Debug for Expression
Expression_Debug_fmt(self) == Expression_Display_fmt(self)

\* An equality that compares what the texts parse to.
Expression_eq_ByAst(self, other) == as_ast(self) = as_ast(other)

\* impl PartialEq for Expression
Expression_eq(self, other) == as_str(self) = as_str(other)

(***************************************************************************)
(* The calls a program makes on the Expression API.                        *)
(***************************************************************************)

MaxExprs == 3       \* how many Expressions are alive at once

ExprTexts ==
    { <<"@">>,
      <<"@", " ">>,
      <<"f","o","o",".","b","a","r">>,
      <<"f","o","o"," ","|"," ","b","a","z">>,
      <<"m","a","x","_","b","y","(","@",","," ","&","a",")">>,
      <<"f","(","@",")">>,
      TestNewLines }

Interpreters == {None, CustomInterpreter}

\* The data handed to the searches: (), the object of the crate's test, two
\* arrays for max_by, and a map with a key that is not a string.
Inputs ==
    { VNull,
      VObject(n_foo :> VObject(n_bar :> VBool(TRUE))),
      VArray(<<VObject(n_a :> VNumber(1)), VObject(n_a :> VBool(TRUE))>>),
      VArray(<<VObject(n_a :> VNumber(1)), VObject(n_a :> VNumber(2))>>),
      HostMap(<<[key |-> VNumber(1), value |-> VBool(TRUE)]>>) }

NoCall == [op |-> "none"]

CoordIdle ==
    /\ expr = <<>>
    /\ offset = 0
    /\ step = "input"
    /\ coords = None
    /\ carat = None
    /\ error = None
    /\ text = None

Init ==
    /\ pool = {}
    /\ last = NoCall
    /\ memo = NoCall
    /\ halted = FALSE
    /\ CoordIdle

\* Expression::new(t) or Expression::with_interpreter(t, Some(&i))
New ==
    /\ ~halted
    /\ \E t \in ExprTexts, i \in Interpreters :
        \E r \in {Expression_with_interpreter(t, i)} :
            /\ last' = [op |-> "new", text |-> t, interpreter |-> i, result |-> r]
            /\ pool' = IF r.ok THEN pool \cup {r.value} ELSE pool
            /\ Cardinality(pool') <= MaxExprs
    /\ UNCHANGED <<memo, halted, coordVars>>

\* as_str, as_ast and the two renderings of the Expression just built
Inspect ==
    /\ ~halted
    /\ last.op = "new"
    /\ last.result.ok
    /\ LET e == last.result.value
       IN  last' = [op |-> "inspect", text |-> last.text, self |-> e,
                    as_str |-> as_str(e), as_ast |-> as_ast(e),
                    display |-> Expression_Display_fmt(e),
                    debug |-> Expression_Debug_fmt(e)]
    /\ UNCHANGED <<pool, memo, halted, coordVars>>

\* a == b
Compare ==
    /\ ~halted
    /\ \E a \in pool, b \in pool :
        last' = [op |-> "eq", a |-> a, b |-> b, result |-> Expression_eq(a, b)]
    /\ UNCHANGED <<pool, memo, halted, coordVars>>

\* e.search(d); the call may be remembered in memo
Search ==
    /\ ~halted
    /\ \E e \in pool, d \in Inputs :
        \E out \in {Expression_search(e, d)} :
            /\ last' = [op |-> "search", self |-> e, input |-> d, out |-> out]
            /\ pool' = (pool \ {e}) \cup {out.self}
            /\ halted' = out.panicked
            /\ \/ memo' = memo
               \/ /\ ~out.panicked
                  /\ memo' = [op |-> "search", self |-> e, input |-> d,
                              result |-> out.result]
    /\ UNCHANGED coordVars

\* search(t, d)
SearchFn ==
    /\ ~halted
    /\ \E t \in ExprTexts, d \in Inputs :
        \E out \in {search(t, d)} :
            /\ last' = [op |-> "search_fn", text |-> t, input |-> d, out |-> out]
            /\ halted' = out.panicked
    /\ UNCHANGED <<pool, memo, coordVars>>

\* A program that builds, inspects and compares Expressions.
Next ==
    \/ New
    \/ Inspect
    \/ Compare

Spec == Init /\ [][Next]_vars

\* A program that has compiled one Expression and runs searches: with that
\* Expression, and with the search function on any text.
InitSearch ==
    /\ \E t \in ExprTexts, i \in Interpreters :
        \E r \in {Expression_with_interpreter(t, i)} :
            r.ok /\ pool = {r.value}
    /\ last = NoCall
    /\ memo = NoCall
    /\ halted = FALSE
    /\ CoordIdle

NextSearch ==
    \/ Search
    \/ SearchFn

SpecSearch == InitSearch /\ [][NextSearch]_vars

(***************************************************************************)
(* Properties of the coordinate and diagnostic operations (SpecCoord).     *)
(***************************************************************************)

MinOf(a, b) == IF a < b THEN a ELSE b
MaxIn(S) == CHOOSE m \in S : \A x \in S : x <= m

\* The positions of the first k characters of e, of the new lines among
\* them, and the position of the last of those new lines (0 when none).
FirstK(e, k) == {i \in 1..Len(e) : i <= k}
NewLinesAmong(e, k) == {i \in FirstK(e, k) : e[i] = "\n"}
LastNewLine(e, k) == MaxIn(NewLinesAmong(e, k) \cup {0})
LineOf(e, k) == Cardinality(NewLinesAmong(e, k))
ColumnOf(e, k) == Cardinality({i \in FirstK(e, k) : i > LastNewLine(e, k)})

\* C1: from_offset(expr, k) has line = the number of "\n" among the first k
\* characters of expr, column = the number of characters among the first k
\* that follow the last such "\n" (all of them when there is none), so the
\* column is 0 right after a "\n" and both are 0 at offset 0; the offset
\* field is k.
C1_FromOffsetCountsNewLines ==
    step = "from_offset" =>
        /\ coords.line = LineOf(expr, offset)
        /\ coords.column = ColumnOf(expr, offset)
        /\ coords.offset = offset
        /\ (offset = 0 => coords.line = 0 /\ coords.column = 0)
        /\ (offset \in 1..Len(expr) /\ expr[offset] = "\n" => coords.column = 0)
        /\ (expr = TestNewLines /\ offset = 5 =>
                coords = [offset |-> 5, line |-> 1, column |-> 1])
        /\ (expr = TestNoNewLines /\ offset = 4 =>
                coords = [offset |-> 4, line |-> 0, column |-> 4])

\* A from_offset result on a second line, some characters in, after an
\* earlier line that had characters of its own.
C1_Witness ==
    /\ step = "from_offset"
    /\ coords.line >= 1
    /\ coords.column >= 1
    /\ LastNewLine(expr, offset) > 1
    /\ offset <= Len(expr)

\* C10: from_offset is defined for an offset at or past the end of the text:
\* then line = all the "\n" of expr, column = the characters after the last
\* "\n", and the offset field is k itself; in every case line is at most the
\* number of "\n" of expr and line + column at most min(k, length of expr).
C10_OffsetPastEnd ==
    step = "from_offset" =>
        /\ (offset >= Len(expr) =>
                /\ coords.line = Cardinality({i \in 1..Len(expr) : expr[i] = "\n"})
                /\ coords.column = Len(expr) - LastNewLine(expr, Len(expr))
                /\ coords.offset = offset)
        /\ coords.line <= Cardinality({i \in 1..Len(expr) : expr[i] = "\n"})
        /\ coords.line + coords.column <= MinOf(offset, Len(expr))

\* An offset strictly past the end of a text that has a new line and
\* characters after it.
C10_Witness ==
    /\ step = "from_offset"
    /\ offset > Len(expr)
    /\ coords.offset = offset
    /\ coords.line >= 1
    /\ coords.column >= 1

\* The carat line of column c: c spaces, "^", new line.
CaratLine(c) == [i \in 1..(c + 2) |-> IF i <= c THEN " " ELSE IF i = c + 1 THEN "^" ELSE "\n"]

\* The position of the (n+1)-th "\n" of e (0 when e has fewer).
NthNewLine(e, n) ==
    LET nl == {i \in 1..Len(e) : e[i] = "\n"}
        at == {i \in nl : Cardinality({j \in nl : j < i}) = n}
    IN  IF at = {} THEN 0 ELSE CHOOSE i \in at : TRUE

\* expr with the carat line of column c put after its (l+1)-th "\n", or at
\* the end after one more "\n" when expr has fewer new lines.
WithCaratLine(e, l, c) ==
    LET p == NthNewLine(e, l)
    IN  IF p = 0
        THEN e \o <<"\n">> \o CaratLine(c)
        ELSE SubSeq(e, 1, p) \o CaratLine(c) \o SubSeq(e, p + 1, Len(e))

\* C2: c.expression_with_carat(expr) is expr with exactly one carat line
\* (c.column spaces, "^", "\n") inserted right after the (c.line+1)-th "\n"
\* of expr, or at the end after one appended "\n" when expr has fewer new
\* lines; every character of expr is kept in order.
C2_CaratLineInserted ==
    step = "carat" =>
        /\ carat = WithCaratLine(expr, coords.line, coords.column)
        /\ Cardinality({i \in 1..Len(carat) : carat[i] = "^"}) = 1
        /\ (expr = TestNonLast /\ coords.line = 1 /\ coords.column = 1 =>
                carat = <<"f","o","o","\n",".",".","b","a","r","\n",
                          " ","^","\n","b","a","z">>)
        /\ (expr = TestNewLines /\ coords.line = 1 /\ coords.column = 1 =>
                carat = <<"f","o","o","\n",".",".","b","a","r","\n"," ","^","\n">>)
        /\ (expr = TestNoNewLines /\ coords.line = 0 /\ coords.column = 4 =>
                carat = <<"f","o","o",".",".","b","a","r","\n",
                          " "," "," "," ","^","\n">>)

\* A carat line put after a line that is neither the first nor the last, with
\* text following it.
C2_Witness ==
    /\ step = "carat"
    /\ coords.line >= 1
    /\ NthNewLine(expr, coords.line) \in 1..(Len(expr) - 1)
    /\ carat[Len(carat)] # "\n"

\* The decimal text of a number below 100.
Decimal(n) ==
    IF n < 10 THEN <<Digits[n + 1]>> ELSE <<Digits[(n \div 10) + 1], Digits[(n % 10) + 1]>>

EndsWith(s, suffix) ==
    /\ Len(s) >= Len(suffix)
    /\ SubSeq(s, Len(s) - Len(suffix) + 1, Len(s)) = suffix

\* C3: the displayed text of Error::new(expr, offset, reason) is the reason's
\* text, a space, "(line L, column C)", a new line and the expression with
\* the carat line of column C after line L, with L and C the line and column
\* of offset in expr; the stored expression is expr. For "foo\n..bar" at
\* offset 5 the text ends with "(line 1, column 1)\nfoo\n..bar\n ^\n".
C3_ErrorDisplay ==
    step = "display" =>
        LET L == LineOf(expr, offset)
            C == ColumnOf(expr, offset)
        IN  /\ error.expression = expr
            /\ text = ErrorReason_fmt(error.error_reason) \o <<" ">>
                        \o <<"(","l","i","n","e"," ">> \o Decimal(L)
                        \o <<","," ","c","o","l","u","m","n"," ">> \o Decimal(C)
                        \o <<")">> \o <<"\n">> \o WithCaratLine(expr, L, C)
            /\ (expr = TestNewLines /\ offset = 5 =>
                    EndsWith(text, <<"(","l","i","n","e"," ","1",","," ",
                                     "c","o","l","u","m","n"," ","1",")","\n",
                                     "f","o","o","\n",".",".","b","a","r","\n",
                                     " ","^","\n">>))

\* The diagnostic of the parse error of "foo\n..bar" at offset 5.
C3_Witness ==
    /\ step = "display"
    /\ expr = TestNewLines
    /\ offset = 5
    /\ error.error_reason = Parse(Unexpected)
    /\ Len(text) > Len(expr)

(***************************************************************************)
(* Properties of building, inspecting and comparing Expressions (Spec).    *)
(***************************************************************************)

SameText(x, y) == Len(x) = Len(y) /\ \A i \in 1..Len(x) : x[i] = y[i]

\* C7: two Expressions are equal exactly when their source texts are equal
\* character for character; equality is reflexive, symmetric and
\* transitive, ignores the interpreter, and texts that differ only in
\* whitespace are unequal even when they parse to the same AST.
C7_EqualityBySourceText ==
    /\ last.op = "eq" => last.result = SameText(last.a.original, last.b.original)
    /\ \A a \in pool : Expression_eq(a, a)
    /\ \A a \in pool, b \in pool :
        /\ Expression_eq(a, b) = Expression_eq(b, a)
        /\ Expression_eq(a, b) = SameText(a.original, b.original)
        /\ (a.original = b.original /\ a.interpreter # b.interpreter => Expression_eq(a, b))
        /\ (a.ast = b.ast /\ a.original # b.original => ~Expression_eq(a, b))
    /\ \A a \in pool, b \in pool, c \in pool :
        Expression_eq(a, b) /\ Expression_eq(b, c) => Expression_eq(a, c)

\* A comparison of two Expressions with the same AST and texts that differ
\* in whitespace, beside an Expression with the text of one and another
\* interpreter.
C7_Witness ==
    /\ last.op = "eq"
    /\ last.a.ast = last.b.ast
    /\ last.a.original # last.b.original
    /\ ~last.result
    /\ \E x \in pool : x.original = last.a.original /\ x.interpreter # last.a.interpreter

\* C8: for a text e that parses, the Expression built from it returns e
\* itself from as_str, renders as e with Display and with Debug, and as_ast
\* is the AST parse(e) gave.
C8_TextAndAstKept ==
    /\ (last.op = "new" /\ parse(last.text).ok =>
            /\ last.result.ok
            /\ as_str(last.result.value) = last.text)
    /\ (last.op = "inspect" =>
            /\ last.as_str = last.text
            /\ last.display = last.text
            /\ last.debug = last.text
            /\ last.as_ast = parse(last.text).value)

\* The Expression of a text that ends in a space, inspected.
C8_Witness ==
    /\ last.op = "inspect"
    /\ last.text[Len(last.text)] = " "
    /\ last.as_str = last.text

(***************************************************************************)
(* Properties of the searches (SpecSearch).                                *)
(***************************************************************************)

Unrepresentable(d) == ~serialize(d).ok

\* C4: a search on data that cannot be represented as a value returns the
\* typed error of the ingestion to the caller: it does not abort and does
\* not evaluate the expression.
C4_IngestionFailureReturned ==
    /\ (last.op = "search" /\ Unrepresentable(last.input) =>
            /\ ~last.out.panicked
            /\ ~last.out.result.ok
            /\ last.out.result.err.error_reason = Runtime(serialize(last.input).err))
    /\ (last.op = "search_fn" /\ last.out.compiled /\ Unrepresentable(last.input) =>
            /\ ~last.out.panicked
            /\ ~last.out.call.result.ok
            /\ last.out.call.result.err.error_reason = Runtime(serialize(last.input).err))

\* C5: search(expression, data) has the outcome of Expression::new followed
\* by Expression::search on its result; when the text does not parse the
\* caller gets the parse error, and no Expression is built, no data ingested
\* and nothing interpreted.
C5_SearchIsNewThenSearch ==
    last.op = "search_fn" =>
        LET compiled == Expression_new(last.text)
        IN  IF ~compiled.ok
            THEN /\ ~last.out.compiled
                 /\ ~last.out.panicked
                 /\ "call" \notin DOMAIN last.out
                 /\ last.out.result = compiled
                 /\ last.out.result.err.error_reason.kind = "Parse"
            ELSE LET two == Expression_search(compiled.value, last.input)
                 IN  /\ last.out.compiled
                     /\ last.out.panicked = two.panicked
                     /\ (~two.panicked => last.out.call.result = two.result)
                     /\ (/\ memo.op = "search"
                         /\ memo.self = compiled.value
                         /\ memo.input = last.input
                         => last.out.call.result = memo.result)

\* The search function called with a text that does not parse and data that
\* cannot be ingested.
C5_Witness ==
    /\ last.op = "search_fn"
    /\ ~last.out.compiled
    /\ Unrepresentable(last.input)
    /\ ~last.out.result.ok

\* C6: a search leaves the Expression as it was and works on a Context made
\* for that call (the Expression's text, no invocation counted), so the
\* result of searching a value is the result any earlier search of that
\* value with that Expression returned.
C6_SearchesAreIndependent ==
    last.op = "search" =>
        /\ last.out.self = last.self
        /\ pool = {last.self}
        /\ (~last.out.panicked =>
                /\ last.out.ctx0.expression = last.self.original
                /\ last.out.ctx0.invocation = 0
                /\ last.out.ctx0.offset = 0
                /\ (memo.op = "search" /\ memo.self = last.self /\ memo.input = last.input
                        => last.out.result = memo.result))

\* A search whose result carries an invocation count, repeated after it was
\* remembered.
C6_Witness ==
    /\ last.op = "search"
    /\ memo.op = "search"
    /\ memo.self = last.self
    /\ memo.input = last.input
    /\ ~last.out.panicked
    /\ ~last.out.result.ok
    /\ last.out.result.err.error_reason.err.e = "InvalidReturnType"
    /\ last.out.result.err.error_reason.err.invocation = 2

\* The interpreter a search must use: the Expression's own, or a default one.
InterpreterOf(e) == IF e.interpreter = None THEN TreeInterpreter_new ELSE e.interpreter

\* C9: a search returns the interpreter's outcome as it is, a value or a
\* runtime error. An Expression built with an interpreter uses it as the
\* Context's registry and to interpret the AST; an Expression built with
\* none uses a default interpreter created for the call for both.
C9_InterpreterOutcomeReturned ==
    last.op = "search" /\ ~last.out.panicked =>
        LET i == InterpreterOf(last.self)
            r == interpret(last.out.data, as_ast(last.self),
                           Context_new(i, last.self.original), i)
        IN  /\ last.out.result = SearchResult(r)
            /\ last.out.result = last.out.raw
            /\ last.out.by = i
            /\ last.out.ctx0.interpreter = i
            /\ last.out.created = (last.self.interpreter = None)

\* A search with a custom interpreter that ends in a runtime error.
C9_Witness ==
    /\ last.op = "search"
    /\ ~last.out.panicked
    /\ last.self.interpreter = CustomInterpreter
    /\ ~last.out.result.ok
    /\ last.out.result.err.error_reason.kind = "Runtime"

====
